---- MODULE Spec2Model ----
(***************************************************************************)
(* State-machine model of gprMax/model_build_run.py: run_model (build or   *)
(* reuse of the global grid G, stepping of sources and receivers, memory   *)
(* admission), solve_cpu and solve_gpu (the leapfrog loops).               *)
(* Arrays are abstracted to the history of the operations applied to them  *)
(* since they were last zeroed: two arrays are equal iff the same updates  *)
(* were applied in the same order.                                         *)
(***************************************************************************)
EXTENDS Integers, Sequences, FiniteSets, TLC

\* ------------------------------------------------------------------ bounds
GridN == 2      \* nx = ny = nz
MaxRuns == 2    \* largest modelend
MaxIter == 2    \* largest G.iterations
MaxSrc == 1     \* largest number of sources of one type / of receivers in SolverConfigs

\* --------------------------------------------------------------- utilities
Range(s) == {s[i] : i \in DOMAIN s}

Max(S) == CHOOSE x \in S : \A y \in S : y <= x


Rep(n, x) == [i \in 1..n |-> x]

\* One update applied to an array: iteration, kind of update, index of the
\* PML / source / snapshot it belongs to, and the grid position it acts at.
Ev(it, ev, id, at) == [it |-> it, ev |-> ev, id |-> id, at |-> at]

Zero3 == <<0, 0, 0>>

Unwritten == <<Ev(-1, "none", 0, Zero3)>>

\* ------------------------------------------------------ inputs of a process
Faces == <<"x0", "y0", "z0", "xmax", "ymax", "zmax">>

PmlAll(t) == [f \in Range(Faces) |-> t]

PmlChoices == {PmlAll(0), PmlAll(1), [PmlAll(0) EXCEPT !["x0"] = 2]}

StepVecs == {Zero3, <<1, 0, 0>>, <<0, -1, 0>>, <<0, 0, 1>>}

\* origins of the stepped sources and receivers (inside the domain)
Origins == {Zero3, <<GridN - 1, 0, 0>>, <<GridN - 1, GridN - 1, GridN - 1>>}

\* memory_usage(G) against the host RAM and the total memory of the GPU
MemCases ==
    { [est |-> 2, ram |-> 2, gpumem |-> 2],
      [est |-> 3, ram |-> 2, gpumem |-> 3],
      [est |-> 2, ram |-> 2, gpumem |-> 1] }

\* pole counts of the user materials of the input file
PoleChoices == {<<>>, <<0>>, <<1>>, <<1, 2>>}

\* number of sources of each type and of receivers
SrcCount(vs, tl, hd, md, rx) == [vs |-> vs, tl |-> tl, hd |-> hd, md |-> md, rx |-> rx]

SrcCountChoices ==
    {SrcCount(0, 0, 0, 0, 0), SrcCount(MaxSrc, MaxSrc, MaxSrc, MaxSrc, MaxSrc)}
    \cup {SrcCount(k, 0, 0, 0, 0) : k \in 1..MaxSrc}
    \cup {SrcCount(0, k, 0, 0, 0) : k \in 1..MaxSrc}
    \cup {SrcCount(0, 0, k, 0, 0) : k \in 1..MaxSrc}
    \cup {SrcCount(0, 0, 0, k, 0) : k \in 1..MaxSrc}
    \cup {SrcCount(0, 0, 0, 0, k) : k \in 1..MaxSrc}

RunRanges == {<<s, e>> : s \in 1..MaxRuns, e \in 1..MaxRuns} \cap {r \in (1..MaxRuns) \X (1..MaxRuns) : r[1] <= r[2]}

SnapChoices == {<<>>, <<1, MaxIter>>, <<0, MaxIter + 1>>}

DispChoices == {"ok", "error", "undersampled", "dispersive"}

\* The command line (args), the processed input file and the host: fixed
\* for the life of the process.
DefaultCfg ==
    [ gpu |-> FALSE, geometry_fixed |-> FALSE, geometry_only |-> FALSE,
      poles |-> <<>>, pmlthickness |-> PmlAll(0),
      vs |-> <<>>, vspol |-> "z", ntl |-> 0, hd |-> <<>>, md |-> <<>>, rx |-> <<>>,
      srcsteps |-> Zero3, rxsteps |-> Zero3,
      iterations |-> 1, snaptimes |-> <<>>,
      mem |-> [est |-> 2, ram |-> 2, gpumem |-> 2],
      constmem |-> 16,
      modelstart |-> 1, modelend |-> 1,
      disp |-> "ok", mode |-> "3D", geomviews |-> FALSE ]

\* n positions along x, distinct while n <= GridN
AlongX(n) == [i \in 1..n |-> <<(i - 1) % GridN, 0, 0>>]

SolverConfigs ==
    { [DefaultCfg EXCEPT !.gpu = g, !.poles = p, !.pmlthickness = t,
                         !.vs = Rep(c.vs, 1), !.ntl = c.tl,
                         !.hd = AlongX(c.hd), !.md = AlongX(c.md),
                         !.rx = AlongX(c.rx),
                         !.iterations = n, !.snaptimes = s] :
        g \in BOOLEAN, p \in PoleChoices, t \in PmlChoices,
        c \in SrcCountChoices, n \in 0..MaxIter, s \in SnapChoices }

SteppingConfigs ==
    { [DefaultCfg EXCEPT !.hd = <<o.s>>, !.md = <<Zero3>>, !.rx = <<o.r>>,
                         !.vs = <<0>>, !.ntl = 1,
                         !.srcsteps = st.s, !.rxsteps = st.r,
                         !.modelstart = r[1], !.modelend = r[2],
                         !.geometry_fixed = f] :
        o \in [s : Origins, r : Origins], st \in [s : StepVecs, r : StepVecs \ {<<0, 0, 1>>}],
        r \in RunRanges, f \in BOOLEAN }

BuildConfigs ==
    { [DefaultCfg EXCEPT !.gpu = g, !.poles = p, !.mem = m, !.disp = d,
                         !.geometry_fixed = f, !.geometry_only = b[1],
                         !.geomviews = b[1],
                         !.constmem = IF b[2] THEN 5 ELSE 16,
                         !.pmlthickness = IF b[2] THEN PmlAll(1) ELSE PmlAll(0),
                         !.mode = IF b[2] THEN "2D TMz" ELSE "3D",
                         !.rx = <<Zero3>>, !.hd = <<Zero3>>,
                         !.modelstart = r[1], !.modelend = r[2]] :
        g \in BOOLEAN, p \in PoleChoices \ {<<0>>}, m \in MemCases, d \in DispChoices,
        f \in BOOLEAN, b \in BOOLEAN \X BOOLEAN, r \in RunRanges }

\* stepping out of the domain together with the fatal conditions of the build
CrossConfigs ==
    { [DefaultCfg EXCEPT !.hd = <<Zero3>>, !.rx = <<Zero3>>, !.srcsteps = <<0, -1, 0>>,
                         !.modelstart = r[1], !.modelend = r[2],
                         !.poles = <<1>>, !.mem = m, !.gpu = g, !.disp = d,
                         !.geometry_fixed = f] :
        r \in RunRanges, m \in MemCases, g \in BOOLEAN, d \in {"ok", "undersampled"},
        f \in BOOLEAN }

Modes == {"3D", "2D TMx", "2D TMy", "2D TMz"}

Polarisations == {"x", "y", "z"}

\* 2D and 3D models with a voltage source (resistance 0 or 1) at the origin
ModeConfigs ==
    { [DefaultCfg EXCEPT !.gpu = g, !.mode = m, !.vs = v, !.vspol = p,
                         !.rx = <<Zero3>>, !.geometry_fixed = f,
                         !.modelend = IF f THEN MaxRuns ELSE 1] :
        g \in BOOLEAN, m \in Modes, v \in {<<>>, <<0>>, <<1>>}, p \in Polarisations,
        f \in BOOLEAN }

\* two Hertzian dipoles and two receivers, at the same cell or at two cells
PairConfigs ==
    { [DefaultCfg EXCEPT !.gpu = g, !.hd = <<Zero3, p>>, !.rx = <<Zero3, q>>,
                         !.iterations = n] :
        g \in BOOLEAN, p \in {Zero3, <<1, 0, 0>>}, q \in {Zero3, <<1, 0, 0>>},
        n \in 1..MaxIter }

Configs == SolverConfigs \cup SteppingConfigs \cup BuildConfigs \cup CrossConfigs
           \cup ModeConfigs \cup PairConfigs

\* ------------------------------------------------------------------- state
VARIABLES
    cfg,              \* args, input file and host of this process
    pc,               \* position of the process in run_model / solve_*
    currentmodelrun,  \* argument of the current (or last) run_model call
    calls,            \* number of run_model calls made so far
    inglobals,        \* 'G' in globals()
    G,                \* the FDTDGrid instance (EmptyG when there is none)
    maxpoles,         \* Material.maxpoles (class attribute)
    dev,              \* GPU device memory of the current solve_gpu call
    iteration,        \* loop variable of solve_cpu / solve_gpu
    error,            \* exception that ended the last call ("none" if none)
    trace,            \* history: steps executed by the solver loop of this call
    hist              \* history of this call: bookkeeping for the properties

vars == <<cfg, pc, currentmodelrun, calls, inglobals, G, maxpoles, dev,
          iteration, error, trace, hist>>

EmptyG ==
    [ gpu |-> FALSE, ram |-> 0, gpumem |-> 0, constmem |-> 0,
      materials |-> <<>>, alloc |-> {}, pmlthickness |-> PmlAll(0), pmls |-> <<>>,
      voltagesources |-> <<>>, transmissionlines |-> <<>>,
      hertziandipoles |-> <<>>, magneticdipoles |-> <<>>, rxs |-> <<>>,
      srcsteps |-> Zero3, rxsteps |-> Zero3, iterations |-> 0,
      snapshots |-> <<>>, mode |-> "3D", nx |-> 0, ny |-> 0, nz |-> 0,
      ID |-> <<>>, fields |-> <<>>, T |-> <<>>, pmlaux |-> <<>>,
      coeffs |-> "none", coeffrows |-> 0 ]

EmptyDev == [ fields |-> <<>>, T |-> <<>>, pmlaux |-> <<>>, rxs |-> <<>>, consts |-> {}, kernels |-> {} ]

EmptyHist ==
    [ memchecked |-> FALSE,    \* the memory admission check passed in this call
      built |-> FALSE,         \* this call took the build path
      loopentered |-> FALSE,   \* the solver loop of this call was entered
      itersdone |-> <<>>,      \* indices of the completed iterations, in order
      fieldafter |-> <<>>,     \* field state at loop entry and after each complete iteration
      warned |-> "none",       \* warning printed by the dispersion analysis of this call
      creatematerial |-> 0,    \* invocations of create_material made by this call
      pmlbuilds |-> 0,         \* calls of build_pmls made by this call
      copybacks |-> 0,         \* copies of the device receiver buffer to the receivers
      outfiles |-> 0,          \* output files written by this call
      geomfiles |-> 0,         \* geometry files written by this call
      snapswritten |-> <<>> ]  \* <<snapshot index, iteration, field state>> serialized

Init ==
    /\ cfg \in Configs
    /\ pc = "idle"
    /\ currentmodelrun = 0
    /\ calls = 0
    /\ inglobals = FALSE
    /\ G = EmptyG
    /\ maxpoles = 0
    /\ dev = EmptyDev
    /\ iteration = 0
    /\ error = "none"
    /\ trace = <<>>
    /\ hist = EmptyHist


\* ------------------------------------------------ run_model: entry and build
\* The caller runs the models modelstart..modelend in increasing order, one
\* run_model call per model; a call that raised may be followed by the next.
CallRunModel ==
    /\ pc = "idle"
    /\ IF calls = 0 THEN currentmodelrun' = cfg.modelstart
                    ELSE /\ currentmodelrun < cfg.modelend
                         /\ currentmodelrun' = currentmodelrun + 1
    /\ calls' = calls + 1
    /\ error' = "none"
    /\ trace' = <<>>
    /\ iteration' = 0
    /\ dev' = EmptyDev
    /\ hist' = [EmptyHist EXCEPT !.built = ~inglobals]
    /\ pc' = IF inglobals THEN "reuse_fields" ELSE "new_grid"
    /\ UNCHANGED <<cfg, inglobals, G, maxpoles>>

\* Every step of a call leaves the process inputs and the call's arguments alone.
Frame == UNCHANGED <<cfg, currentmodelrun, calls>>

Raise(e) ==
    /\ pc' = "idle"
    /\ error' = e

NewGrid ==
    /\ pc = "new_grid"
    /\ G' = [EmptyG EXCEPT !.gpu = cfg.gpu, !.ram = cfg.mem.ram,
                           !.gpumem = cfg.mem.gpumem, !.constmem = cfg.constmem]
    /\ inglobals' = TRUE
    /\ pc' = "builtin_materials"
    /\ Frame /\ UNCHANGED <<maxpoles, dev, iteration, error, trace, hist>>

Material(numID, name, poles, type) == [numID |-> numID, ID |-> name, poles |-> poles, type |-> type]

\* Mutant of BuiltinMaterials: free space created before the perfect conductor
BuiltinMaterials_swapped ==
    /\ pc = "builtin_materials"
    /\ G' = [G EXCEPT !.materials = @ \o <<Material(1, "free_space", 0, "builtin"),
                                          Material(0, "pec", 0, "builtin")>>]
    /\ pc' = "process_cmds"
    /\ Frame /\ UNCHANGED <<inglobals, maxpoles, dev, iteration, error, trace, hist>>

BuiltinMaterials ==
    /\ pc = "builtin_materials"
    /\ G' = [G EXCEPT !.materials = @ \o <<Material(0, "pec", 0, "builtin"),
                                          Material(1, "free_space", 0, "builtin")>>]
    /\ pc' = "process_cmds"
    /\ Frame /\ UNCHANGED <<inglobals, maxpoles, dev, iteration, error, trace, hist>>

Source(origin) == [origin |-> origin, coord |-> origin]

VoltageSource(resistance, polarisation, origin) ==
    [origin |-> origin, coord |-> origin, resistance |-> resistance, polarisation |-> polarisation]

Receiver(origin, iterations) ==
    [origin |-> origin, coord |-> origin, outputs |-> [i \in 0..(iterations - 1) |-> Unwritten]]

\* process_singlecmds and process_multicmds: the input file fills the grid
ProcessCmds ==
    /\ pc = "process_cmds"
    /\ G' = [G EXCEPT
              !.nx = GridN, !.ny = GridN, !.nz = GridN,
              !.iterations = cfg.iterations,
              !.pmlthickness = cfg.pmlthickness,
              !.mode = cfg.mode,
              !.srcsteps = cfg.srcsteps, !.rxsteps = cfg.rxsteps,
              !.materials = @ \o [i \in 1..Len(cfg.poles) |->
                                    Material(Len(@) + i - 1, "user", cfg.poles[i], "user")],
              !.voltagesources = [i \in 1..Len(cfg.vs) |-> VoltageSource(cfg.vs[i], cfg.vspol, AlongX(i)[i])],
              !.transmissionlines = Rep(cfg.ntl, Source(Zero3)),
              !.hertziandipoles = [i \in 1..Len(cfg.hd) |-> Source(cfg.hd[i])],
              !.magneticdipoles = [i \in 1..Len(cfg.md) |-> Source(cfg.md[i])],
              !.rxs = [i \in 1..Len(cfg.rx) |-> Receiver(cfg.rx[i], cfg.iterations)],
              !.snapshots = cfg.snaptimes]
    /\ maxpoles' = Max({maxpoles} \cup Range(cfg.poles))
    /\ pc' = "geometry_arrays"
    /\ Frame /\ UNCHANGED <<inglobals, dev, iteration, error, trace, hist>>

InitialiseGeometryArrays ==
    /\ pc = "geometry_arrays"
    /\ G' = [G EXCEPT !.alloc = @ \cup {"solid", "rigid", "ID"}, !.ID = <<"initialise">>]
    /\ pc' = "field_arrays"
    /\ Frame /\ UNCHANGED <<inglobals, maxpoles, dev, iteration, error, trace, hist>>

\* Mutant of initialise_field_arrays: the ID array is reinitialised as well
initialise_field_arrays_resetid(g) ==
    [g EXCEPT !.alloc = @ \cup {"fields"}, !.fields = <<>>, !.ID = <<"initialise">>]

\* G.initialise_field_arrays(): the six field arrays are (re)allocated as zeros
initialise_field_arrays(g) == [g EXCEPT !.alloc = @ \cup {"fields"}, !.fields = <<>>]

InitialiseFieldArrays ==
    /\ pc = "field_arrays"
    /\ G' = initialise_field_arrays(G)
    /\ pc' = "geometry_cmds"
    /\ Frame /\ UNCHANGED <<inglobals, maxpoles, dev, iteration, error, trace, hist>>

ProcessGeometryCmds ==
    /\ pc = "geometry_cmds"
    /\ G' = [G EXCEPT !.ID = Append(@, "geometry")]
    /\ pc' = "build_pmls"
    /\ Frame /\ UNCHANGED <<inglobals, maxpoles, dev, iteration, error, trace, hist>>

\* build_pmls: one PML (with zeroed auxiliary arrays) per face of non-zero thickness
build_pmls(thickness) == SelectSeq(Faces, LAMBDA f : thickness[f] > 0)

\* Mutant of BuildPMLs: build_pmls called without the all-zero test
BuildPMLs_nozerotest ==
    /\ pc = "build_pmls"
    /\ G' = [G EXCEPT !.pmls = build_pmls(G.pmlthickness),
                      !.alloc = @ \cup {"pml"}, !.pmlaux = <<>>]
    /\ hist' = [hist EXCEPT !.pmlbuilds = @ + 1]
    /\ pc' = "build_components"
    /\ Frame /\ UNCHANGED <<inglobals, maxpoles, dev, iteration, error, trace>>

BuildPMLs ==
    /\ pc = "build_pmls"
    /\ IF \A f \in Range(Faces) : G.pmlthickness[f] = 0
       THEN UNCHANGED <<G, hist>>
       ELSE /\ G' = [G EXCEPT !.pmls = build_pmls(G.pmlthickness),
                              !.alloc = @ \cup {"pml"}, !.pmlaux = <<>>]
            /\ hist' = [hist EXCEPT !.pmlbuilds = @ + 1]
    /\ pc' = "build_components"
    /\ Frame /\ UNCHANGED <<inglobals, maxpoles, dev, iteration, error, trace>>

BuildComponents ==
    /\ pc = "build_components"
    /\ G' = [G EXCEPT !.ID = @ \o <<"electric", "magnetic">>]
    /\ pc' = "pec_2d"
    /\ Frame /\ UNCHANGED <<inglobals, maxpoles, dev, iteration, error, trace, hist>>

\* The write of the 2D branch taken: zero (the perfect conductor) to the ID of
\* two electric components on planes 0 and 1 of the invariant direction
PecWrite(mode) ==
    CASE mode = "2D TMx" -> "pec_yz"
      [] mode = "2D TMy" -> "pec_xz"
      [] mode = "2D TMz" -> "pec_xy"

PEC2D ==
    /\ pc = "pec_2d"
    /\ G' = IF G.mode \in {"2D TMx", "2D TMy", "2D TMz"}
            THEN [G EXCEPT !.ID = Append(@, PecWrite(G.mode))] ELSE G
    /\ pc' = "voltage_materials"
    /\ Frame /\ UNCHANGED <<inglobals, maxpoles, dev, iteration, error, trace, hist>>

\* The write of create_material to the ID of the edge the source sits on
\* (the edge of its polarisation at its position, the origin)
IDWrite(polarisation) ==
    CASE polarisation = "x" -> "vs_x"
      [] polarisation = "y" -> "vs_y"
      [] polarisation = "z" -> "vs_z"

\* Mutant of create_materials: a material for every voltage source
RECURSIVE create_materials_unconditional(_, _)
create_materials_unconditional(g, i) ==
    IF i > Len(g.voltagesources) THEN g
    ELSE create_materials_unconditional(
           [g EXCEPT !.materials = Append(@, Material(Len(@), "vs", 0, "voltage-source")),
                     !.ID = Append(@, IDWrite(g.voltagesources[i].polarisation))],
           i + 1)

\* voltagesource.create_material(G) for every voltage source, in list order:
\* a source with resistance appends a material and points the ID of its edge
\* to it
RECURSIVE create_materials(_, _)
create_materials(g, i) ==
    IF i > Len(g.voltagesources) THEN g
    ELSE IF g.voltagesources[i].resistance # 0
         THEN create_materials(
                [g EXCEPT !.materials = Append(@, Material(Len(@), "vs", 0, "voltage-source")),
                          !.ID = Append(@, IDWrite(g.voltagesources[i].polarisation))],
                i + 1)
         ELSE create_materials(g, i + 1)

VoltageSourceMaterials ==
    /\ pc = "voltage_materials"
    /\ G' = create_materials(G, 1)
    /\ hist' = [hist EXCEPT !.creatematerial = @ + Len(G.voltagesources)]
    /\ pc' = "std_coeffs"
    /\ Frame /\ UNCHANGED <<inglobals, maxpoles, dev, iteration, error, trace>>

InitialiseStdCoeffs ==
    /\ pc = "std_coeffs"
    /\ G' = [G EXCEPT !.alloc = @ \cup {"updatecoeffs"}, !.coeffs = "dimensioned",
                       !.coeffrows = Len(G.materials)]
    /\ pc' = "memory_check"
    /\ Frame /\ UNCHANGED <<inglobals, maxpoles, dev, iteration, error, trace, hist>>

\* The two admission tests of the dispersive branch
ExceedsHost(memestimate, g) == memestimate > g.ram

\* Mutant of ExceedsGpu: the estimate compared with the host RAM again
ExceedsGpu_hostram(memestimate, g) == g.gpu /\ memestimate > g.ram

ExceedsGpu(memestimate, g) == g.gpu /\ memestimate > g.gpumem

MemoryCheck ==
    /\ pc = "memory_check"
    /\ IF maxpoles # 0
       THEN IF ExceedsHost(cfg.mem.est, G)
            THEN Raise("memory-host") /\ UNCHANGED <<G, hist>>
            ELSE IF ExceedsGpu(cfg.mem.est, G)
                 THEN Raise("memory-gpu") /\ UNCHANGED <<G, hist>>
                 ELSE /\ G' = [G EXCEPT !.alloc = @ \cup {"dispersive"}, !.T = <<>>]
                      /\ hist' = [hist EXCEPT !.memchecked = TRUE]
                      /\ pc' = "process_materials"
                      /\ error' = error
       ELSE /\ pc' = "process_materials"
            /\ UNCHANGED <<G, hist, error>>
    /\ Frame /\ UNCHANGED <<inglobals, maxpoles, dev, iteration, trace>>

ProcessMaterials ==
    /\ pc = "process_materials"
    /\ G' = [G EXCEPT !.coeffs = "computed"]
    /\ pc' = "dispersion_analysis"
    /\ Frame /\ UNCHANGED <<inglobals, maxpoles, dev, iteration, error, trace, hist>>

\* results of dispersion_analysis(G): the analysis was not carried out, or it
\* gives the sampling N of the wavelength (here: whether N is below
\* G.mingridsampling) and the phase-velocity error (here: whether it is above
\* G.maxnumericaldisp)
dispersion_analysis(outcome) ==
    [ error |-> outcome = "error",
      lowsampling |-> outcome = "undersampled",
      highdeltavp |-> outcome = "dispersive" ]

\* The step of run_model that passed the analysis with warning w ("none" if none)
Proceed(w) ==
    /\ pc' = "step_sources"
    /\ error' = error
    /\ hist' = [hist EXCEPT !.warned = w]

\* Mutant of DispersionAnalysis: a high phase-velocity error is fatal as well
DispersionAnalysis_strict ==
    /\ pc = "dispersion_analysis"
    /\ LET results == dispersion_analysis(cfg.disp)
       IN IF results.error THEN Proceed("unavailable")
          ELSE IF results.lowsampling \/ results.highdeltavp
               THEN Raise("non-physical") /\ hist' = hist
               ELSE Proceed("none")
    /\ Frame /\ UNCHANGED <<inglobals, G, maxpoles, dev, iteration, trace>>

DispersionAnalysis ==
    /\ pc = "dispersion_analysis"
    /\ LET results == dispersion_analysis(cfg.disp)
       IN IF results.error THEN Proceed("unavailable")
          ELSE IF results.lowsampling THEN Raise("non-physical") /\ hist' = hist
          ELSE IF results.highdeltavp THEN Proceed("dispersion")
          ELSE Proceed("none")
    /\ Frame /\ UNCHANGED <<inglobals, G, maxpoles, dev, iteration, trace>>

\* -------------------------------------------- run_model: reuse of the grid
ReuseFields ==
    /\ pc = "reuse_fields"
    /\ G' = initialise_field_arrays(G)
    /\ pc' = "reuse_pmls"
    /\ Frame /\ UNCHANGED <<inglobals, maxpoles, dev, iteration, error, trace, hist>>

ReusePMLs ==
    /\ pc = "reuse_pmls"
    /\ G' = [G EXCEPT !.pmlaux = <<>>]
    /\ pc' = "step_sources"
    /\ Frame /\ UNCHANGED <<inglobals, maxpoles, dev, iteration, error, trace, hist>>


\* ------------------------------- run_model: stepping of sources, receivers
Add3(a, b) == <<a[1] + b[1], a[2] + b[2], a[3] + b[3]>>

Scale3(k, a) == <<k * a[1], k * a[2], k * a[3]>>

\* Mutant of OutOfDomain: the lower bounds are not tested
OutOfDomain_upperonly(coord, steps, modelend, g) ==
    \/ coord[1] + steps[1] * modelend > g.nx
    \/ coord[2] + steps[2] * modelend > g.ny
    \/ coord[3] + steps[3] * modelend > g.nz

\* The test made on the first run for one source or receiver
OutOfDomain(coord, steps, modelend, g) ==
    \/ coord[1] + steps[1] * modelend < 0 \/ coord[1] + steps[1] * modelend > g.nx
    \/ coord[2] + steps[2] * modelend < 0 \/ coord[2] + steps[2] * modelend > g.ny
    \/ coord[3] + steps[3] * modelend < 0 \/ coord[3] + steps[3] * modelend > g.nz

\* Indices of the objects of the list at which the loop raises
Failing(list, steps, run, modelend, g) ==
    {i \in DOMAIN list : run = 1 /\ OutOfDomain(list[i].coord, steps, modelend, g)}

\* The list after the loop: every object before the first failing one is moved
Stepped(list, steps, run, modelend, g) ==
    LET bad == Failing(list, steps, run, modelend, g)
        stop == IF bad = {} THEN Len(list) + 1 ELSE CHOOSE i \in bad : \A j \in bad : i <= j
    IN [i \in DOMAIN list |->
          IF i < stop
          THEN [list[i] EXCEPT !.coord = Add3(list[i].origin, Scale3(run - 1, steps))]
          ELSE list[i]]

StepSources ==
    /\ pc = "step_sources"
    /\ IF G.srcsteps[1] # 0 \/ G.srcsteps[2] # 0 \/ G.srcsteps[3] # 0
       THEN LET all == G.hertziandipoles \o G.magneticdipoles
                new == Stepped(all, G.srcsteps, currentmodelrun, cfg.modelend, G)
                nhd == Len(G.hertziandipoles)
            IN /\ G' = [G EXCEPT !.hertziandipoles = SubSeq(new, 1, nhd),
                                 !.magneticdipoles = SubSeq(new, nhd + 1, Len(new))]
               /\ IF Failing(all, G.srcsteps, currentmodelrun, cfg.modelend, G) # {}
                  THEN Raise("source-step")
                  ELSE pc' = "step_receivers" /\ error' = error
       ELSE /\ pc' = "step_receivers"
            /\ UNCHANGED <<G, error>>
    /\ Frame /\ UNCHANGED <<inglobals, maxpoles, dev, iteration, trace, hist>>

StepReceivers ==
    /\ pc = "step_receivers"
    /\ IF G.rxsteps[1] # 0 \/ G.rxsteps[2] # 0 \/ G.rxsteps[3] # 0
       THEN /\ G' = [G EXCEPT !.rxs = Stepped(G.rxs, G.rxsteps, currentmodelrun, cfg.modelend, G)]
            /\ IF Failing(G.rxs, G.rxsteps, currentmodelrun, cfg.modelend, G) # {}
               THEN Raise("receiver-step")
               ELSE pc' = "geometry_views" /\ error' = error
       ELSE /\ pc' = "geometry_views"
            /\ UNCHANGED <<G, error>>
    /\ Frame /\ UNCHANGED <<inglobals, maxpoles, dev, iteration, trace, hist>>

\* Mutant of GeometryViews: the geometry-only test is ignored
GeometryViews_alwayssolve ==
    /\ pc = "geometry_views"
    /\ hist' = [hist EXCEPT !.geomfiles = IF cfg.geomviews THEN @ + 1 ELSE @]
    /\ pc' = "prepare_snapshots"
    /\ Frame /\ UNCHANGED <<inglobals, G, maxpoles, dev, iteration, error, trace>>

\* Geometry views and geometry objects are written, then geometry-only runs end
GeometryViews ==
    /\ pc = "geometry_views"
    /\ hist' = [hist EXCEPT !.geomfiles = IF cfg.geomviews THEN @ + 1 ELSE @]
    /\ pc' = IF cfg.geometry_only THEN "del_grid" ELSE "prepare_snapshots"
    /\ Frame /\ UNCHANGED <<inglobals, G, maxpoles, dev, iteration, error, trace>>

\* Snapshots prepared, output file named, then solve_cpu or solve_gpu is called
PrepareSnapshots ==
    /\ pc = "prepare_snapshots"
    /\ iteration' = 0
    /\ IF ~G.gpu
       THEN /\ pc' = "cpu_loop"
            /\ hist' = [hist EXCEPT !.loopentered = TRUE, !.fieldafter = <<G.fields>>]
       ELSE /\ pc' = "gpu_compile"
            /\ hist' = hist
    /\ Frame /\ UNCHANGED <<inglobals, G, maxpoles, dev, error, trace>>

WriteOutput ==
    /\ pc = "write_output"
    /\ hist' = [hist EXCEPT !.outfiles = @ + 1]
    /\ pc' = "del_grid"
    /\ Frame /\ UNCHANGED <<inglobals, G, maxpoles, dev, iteration, error, trace>>

\* del G unless the geometry is fixed; the call returns
DelGrid ==
    /\ pc = "del_grid"
    /\ IF ~cfg.geometry_fixed
       THEN inglobals' = FALSE /\ G' = EmptyG
       ELSE UNCHANGED <<inglobals, G>>
    /\ pc' = "idle"
    /\ Frame /\ UNCHANGED <<maxpoles, dev, iteration, error, trace, hist>>


\* ----------------------------------------------------------------- solve_cpu
\* Mutant of CpuBody: the electric update placed before the magnetic one
CpuBody_swapped ==
    << "cpu_store", "cpu_snapshots", "cpu_electric", "cpu_pml_magnetic",
       "cpu_src_magnetic", "cpu_magnetic", "cpu_pml_electric",
       "cpu_src_electric", "cpu_phase_b" >>

\* Positions of the loop body, in program order
CpuBody ==
    << "cpu_store", "cpu_snapshots", "cpu_magnetic", "cpu_pml_magnetic",
       "cpu_src_magnetic", "cpu_electric", "cpu_pml_electric",
       "cpu_src_electric", "cpu_phase_b" >>

Successor(body, head, label) ==
    LET i == CHOOSE k \in DOMAIN body : body[k] = label
    IN IF i = Len(body) THEN head ELSE body[i + 1]

CpuAfter(label) == Successor(CpuBody, "cpu_loop", label)

\* for iteration in range(G.iterations)
CpuLoop ==
    /\ pc = "cpu_loop"
    /\ pc' = IF iteration < G.iterations THEN CpuBody[1] ELSE "write_output"
    /\ Frame /\ UNCHANGED <<inglobals, G, maxpoles, dev, iteration, error, trace, hist>>

\* One statement of the loop body: it changes the grid to g, emits evs, and
\* when it is the last statement of the body the iteration is complete.
CpuStep(label, g, evs, h) ==
    /\ pc = label
    /\ G' = g
    /\ trace' = trace \o evs
    /\ pc' = CpuAfter(label)
    /\ error' = error
    /\ IF CpuAfter(label) = "cpu_loop"
       THEN /\ iteration' = iteration + 1
            /\ hist' = [h EXCEPT !.itersdone = Append(@, iteration),
                                 !.fieldafter = Append(@, g.fields)]
       ELSE /\ iteration' = iteration
            /\ hist' = h
    /\ Frame /\ UNCHANGED <<inglobals, maxpoles, dev>>

\* store_outputs: every receiver stores the field values at its position
store_outputs(it, fields, rxs) ==
    [r \in DOMAIN rxs |-> [rxs[r] EXCEPT !.outputs[it] = fields]]

CpuStoreOutputs ==
    CpuStep("cpu_store",
            [G EXCEPT !.rxs = store_outputs(iteration, G.fields, G.rxs)],
            <<Ev(iteration, "store_outputs", 0, Zero3)>>, hist)

\* Mutant of DueSnapshots: the snapshot time compared with the iteration index
DueSnapshots_offbyone(snapshots, it) ==
    SelectSeq([i \in DOMAIN snapshots |-> i], LAMBDA i : snapshots[i] = it)

\* Indices of the snapshots written in an iteration, in list order
DueSnapshots(snapshots, it) ==
    SelectSeq([i \in DOMAIN snapshots |-> i], LAMBDA i : snapshots[i] = it + 1)

CpuSnapshots ==
    LET due == DueSnapshots(G.snapshots, iteration)
    IN CpuStep("cpu_snapshots", G,
               [k \in DOMAIN due |-> Ev(iteration, "snapshot", due[k], Zero3)],
               [hist EXCEPT !.snapswritten =
                   @ \o [k \in DOMAIN due |-> <<due[k], iteration, G.fields>>]])

Updated(g, evs) == [g EXCEPT !.fields = @ \o evs]

CpuUpdateMagnetic ==
    LET evs == <<Ev(iteration, "update_magnetic", 0, Zero3)>>
    IN CpuStep("cpu_magnetic", Updated(G, evs), evs, hist)

PmlEvents(g, it, kind) == [i \in DOMAIN g.pmls |-> Ev(it, kind, i, Zero3)]

PmlUpdated(g, evs) == [g EXCEPT !.fields = @ \o evs, !.pmlaux = @ \o evs]

CpuPmlMagnetic ==
    LET evs == PmlEvents(G, iteration, "pml_magnetic")
    IN CpuStep("cpu_pml_magnetic", PmlUpdated(G, evs), evs, hist)

SourceEvents(list, it, kind) == [i \in DOMAIN list |-> Ev(it, kind, i, list[i].coord)]

\* G.transmissionlines + G.magneticdipoles
MagneticSources(g, it) ==
    SourceEvents(g.transmissionlines, it, "transmissionline_magnetic")
    \o SourceEvents(g.magneticdipoles, it, "magneticdipole")

CpuSourcesMagnetic ==
    LET evs == MagneticSources(G, iteration)
    IN CpuStep("cpu_src_magnetic", Updated(G, evs), evs, hist)

\* Mutant of ElectricUpdate: the non-dispersive case falls into the 1-pole one
ElectricUpdate_dispersive(poles) ==
    IF poles <= 1 THEN "dispersive_1pole_A"
    ELSE "dispersive_multipole_A"

\* The main electric update chosen by Material.maxpoles
ElectricUpdate(poles) ==
    IF poles = 0 THEN "update_electric"
    ELSE IF poles = 1 THEN "dispersive_1pole_A"
    ELSE "dispersive_multipole_A"

DispersiveUpdated(g, evs) == [g EXCEPT !.fields = @ \o evs, !.T = @ \o evs]

\* The dispersive updates read Tx, Ty, Tz and updatecoeffsdispersive: on a grid
\* where they were never allocated the attribute lookup raises.
CpuUpdateElectric ==
    LET evs == <<Ev(iteration, ElectricUpdate(maxpoles), 0, Zero3)>>
    IN IF maxpoles = 0
       THEN CpuStep("cpu_electric", Updated(G, evs), evs, hist)
       ELSE IF "dispersive" \in G.alloc
            THEN CpuStep("cpu_electric", DispersiveUpdated(G, evs), evs, hist)
            ELSE /\ pc = "cpu_electric"
                 /\ Raise("AttributeError")
                 /\ Frame /\ UNCHANGED <<inglobals, G, maxpoles, dev, iteration, trace, hist>>

CpuPmlElectric ==
    LET evs == PmlEvents(G, iteration, "pml_electric")
    IN CpuStep("cpu_pml_electric", PmlUpdated(G, evs), evs, hist)

\* Mutant of ElectricSources: the Hertzian dipoles first
ElectricSources_hertzianfirst(g, it) ==
    SourceEvents(g.hertziandipoles, it, "hertziandipole")
    \o SourceEvents(g.voltagesources, it, "voltagesource")
    \o SourceEvents(g.transmissionlines, it, "transmissionline_electric")

\* G.voltagesources + G.transmissionlines + G.hertziandipoles
ElectricSources(g, it) ==
    SourceEvents(g.voltagesources, it, "voltagesource")
    \o SourceEvents(g.transmissionlines, it, "transmissionline_electric")
    \o SourceEvents(g.hertziandipoles, it, "hertziandipole")

CpuSourcesElectric ==
    LET evs == ElectricSources(G, iteration)
    IN CpuStep("cpu_src_electric", Updated(G, evs), evs, hist)

\* Mutant of PhaseB: the multi-pole second part used for one pole as well
PhaseB_mixed(poles, it) ==
    IF poles >= 1 THEN <<Ev(it, "dispersive_multipole_B", 0, Zero3)>>
    ELSE <<>>

\* The second part of the dispersive update, if any
PhaseB(poles, it) ==
    IF poles = 1 THEN <<Ev(it, "dispersive_1pole_B", 0, Zero3)>>
    ELSE IF poles > 1 THEN <<Ev(it, "dispersive_multipole_B", 0, Zero3)>>
    ELSE <<>>

CpuPhaseB ==
    LET evs == PhaseB(maxpoles, iteration)
    IN IF evs = <<>> \/ "dispersive" \in G.alloc
       THEN CpuStep("cpu_phase_b", IF evs = <<>> THEN G ELSE DispersiveUpdated(G, evs), evs, hist)
       ELSE /\ pc = "cpu_phase_b"
            /\ Raise("AttributeError")
            /\ Frame /\ UNCHANGED <<inglobals, G, maxpoles, dev, iteration, trace, hist>>


\* ----------------------------------------------------------------- solve_gpu
\* Field kernels are compiled against the shapes of the grid's arrays,
\* those of the dispersive arrays included when Material.maxpoles > 0.
GpuCompileFields ==
    /\ pc = "gpu_compile"
    /\ IF maxpoles > 0 /\ "dispersive" \notin G.alloc
       THEN Raise("AttributeError") /\ dev' = dev
       ELSE /\ dev' = [dev EXCEPT !.kernels = @ \cup {"fields"}]
            /\ pc' = "gpu_constmem"
            /\ error' = error
    /\ Frame /\ UNCHANGED <<inglobals, G, maxpoles, iteration, trace, hist>>

\* Mutant of CoeffBytes: the magnetic table left out of the sum
CoeffBytes_electriconly(g) == g.coeffrows

\* G.updatecoeffsE.nbytes + G.updatecoeffsH.nbytes: one row per material in each
CoeffBytes(g) == g.coeffrows + g.coeffrows

GpuConstMem ==
    /\ pc = "gpu_constmem"
    /\ IF CoeffBytes(G) > G.constmem
       THEN Raise("constant-memory") /\ dev' = dev
       ELSE /\ dev' = [dev EXCEPT !.consts = @ \cup {"fields"}]
            /\ pc' = "gpu_init_arrays"
            /\ error' = error
    /\ Frame /\ UNCHANGED <<inglobals, G, maxpoles, iteration, trace, hist>>

\* gpu_initialise_dispersive_arrays (if dispersive) and gpu_initialise_arrays:
\* the host arrays are copied to the device
GpuInitArrays ==
    /\ pc = "gpu_init_arrays"
    /\ dev' = [dev EXCEPT !.fields = G.fields,
                          !.T = IF maxpoles > 0 THEN G.T ELSE @]
    /\ pc' = "gpu_init_pmls"
    /\ Frame /\ UNCHANGED <<inglobals, G, maxpoles, iteration, error, trace, hist>>

GpuInitPMLs ==
    /\ pc = "gpu_init_pmls"
    /\ dev' = IF G.pmls # <<>>
              THEN [dev EXCEPT !.kernels = @ \cup {"pml"}, !.consts = @ \cup {"pml"},
                               !.pmlaux = G.pmlaux]
              ELSE dev
    /\ pc' = "gpu_init_rxs"
    /\ Frame /\ UNCHANGED <<inglobals, G, maxpoles, iteration, error, trace, hist>>

\* gpu_initialise_rx_arrays: one zeroed buffer of G.iterations samples per receiver
GpuInitReceivers ==
    /\ pc = "gpu_init_rxs"
    /\ dev' = IF G.rxs # <<>>
              THEN [dev EXCEPT !.kernels = @ \cup {"store_outputs"},
                               !.rxs = [r \in DOMAIN G.rxs |->
                                          [i \in 0..(G.iterations - 1) |-> Unwritten]]]
              ELSE dev
    /\ pc' = "gpu_init_sources"
    /\ Frame /\ UNCHANGED <<inglobals, G, maxpoles, iteration, error, trace, hist>>

GpuInitSources ==
    /\ pc = "gpu_init_sources"
    /\ dev' = IF G.voltagesources \o G.hertziandipoles \o G.magneticdipoles # <<>>
              THEN [dev EXCEPT !.kernels = @ \cup {"sources"}, !.consts = @ \cup {"sources"}]
              ELSE dev
    /\ pc' = "gpu_loop"
    /\ hist' = [hist EXCEPT !.loopentered = TRUE, !.fieldafter = <<dev.fields>>]
    /\ Frame /\ UNCHANGED <<inglobals, G, maxpoles, iteration, error, trace>>

\* Mutant of GpuBody: the receivers sampled after the magnetic update
GpuBody_latestore ==
    << "gpu_magnetic", "gpu_store", "gpu_pml_magnetic", "gpu_magneticdipoles",
       "gpu_electric", "gpu_pml_electric", "gpu_voltagesources",
       "gpu_hertziandipoles", "gpu_phase_b" >>

GpuBody ==
    << "gpu_store", "gpu_magnetic", "gpu_pml_magnetic", "gpu_magneticdipoles",
       "gpu_electric", "gpu_pml_electric", "gpu_voltagesources",
       "gpu_hertziandipoles", "gpu_phase_b" >>

GpuAfter(label) == Successor(GpuBody, "gpu_loop", label)

GpuLoop ==
    /\ pc = "gpu_loop"
    /\ pc' = IF iteration < G.iterations THEN GpuBody[1] ELSE "gpu_copy_back"
    /\ Frame /\ UNCHANGED <<inglobals, G, maxpoles, dev, iteration, error, trace, hist>>

\* One kernel launch (or skipped launch) of the loop body
GpuStep(label, d, evs) ==
    /\ pc = label
    /\ dev' = d
    /\ trace' = trace \o evs
    /\ pc' = GpuAfter(label)
    /\ IF GpuAfter(label) = "gpu_loop"
       THEN /\ iteration' = iteration + 1
            /\ hist' = [hist EXCEPT !.itersdone = Append(@, iteration),
                                    !.fieldafter = Append(@, d.fields)]
       ELSE /\ iteration' = iteration
            /\ hist' = hist
    /\ Frame /\ UNCHANGED <<inglobals, G, maxpoles, error>>

\* The store_outputs kernel: sample of every receiver into the device buffer
gpu_store_outputs(it, fields, buf) == [r \in DOMAIN buf |-> [buf[r] EXCEPT ![it] = fields]]

GpuStoreOutputs ==
    IF G.rxs # <<>>
    THEN GpuStep("gpu_store", [dev EXCEPT !.rxs = gpu_store_outputs(iteration, dev.fields, dev.rxs)],
                 <<Ev(iteration, "store_outputs", 0, Zero3)>>)
    ELSE GpuStep("gpu_store", dev, <<>>)

GpuUpdateMagnetic ==
    LET evs == <<Ev(iteration, "update_magnetic", 0, Zero3)>>
    IN GpuStep("gpu_magnetic", Updated(dev, evs), evs)

GpuPmlMagnetic ==
    LET evs == PmlEvents(G, iteration, "pml_magnetic")
    IN GpuStep("gpu_pml_magnetic", PmlUpdated(dev, evs), evs)

\* The source kernels run one thread per source of the list, each adding its
\* term to the field element at the position of its source with a plain read
\* and write: two sources of a list at one position (the sources of a list
\* have one polarisation here) update one element.
Collide(a, b) == a.coord = b.coord

\* The sets of sources of a launch whose terms can be in the array after it:
\* the term of a source is lost only to another thread writing the same element
Survivors(list) ==
    { S \in SUBSET DOMAIN list :
        \A i \in DOMAIN list \ S : \E j \in S : Collide(list[i], list[j]) }

\* Mutant of GpuSourceLaunch: the threads of a launch run one after the other
GpuSourceLaunch_serial(label, list, kind) ==
    LET evs == SourceEvents(list, iteration, kind)
    IN GpuStep(label, Updated(dev, evs), evs)

\* A launch of a source kernel with grid=(round32(len(list)), 1, 1)
GpuSourceLaunch(label, list, kind) ==
    LET evs == SourceEvents(list, iteration, kind)
    IN \E S \in Survivors(list) :
          GpuStep(label, Updated(dev, SelectSeq(evs, LAMBDA x : x.id \in S)), evs)

GpuMagneticDipoles ==
    GpuSourceLaunch("gpu_magneticdipoles", G.magneticdipoles, "magneticdipole")

GpuUpdateElectric ==
    LET evs == <<Ev(iteration, ElectricUpdate(maxpoles), 0, Zero3)>>
    IN GpuStep("gpu_electric",
               IF maxpoles = 0 THEN Updated(dev, evs) ELSE DispersiveUpdated(dev, evs), evs)

GpuPmlElectric ==
    LET evs == PmlEvents(G, iteration, "pml_electric")
    IN GpuStep("gpu_pml_electric", PmlUpdated(dev, evs), evs)

GpuVoltageSources ==
    GpuSourceLaunch("gpu_voltagesources", G.voltagesources, "voltagesource")

GpuHertzianDipoles ==
    GpuSourceLaunch("gpu_hertziandipoles", G.hertziandipoles, "hertziandipole")

GpuPhaseB ==
    LET evs == PhaseB(maxpoles, iteration)
    IN GpuStep("gpu_phase_b", IF evs = <<>> THEN dev ELSE DispersiveUpdated(dev, evs), evs)

\* gpu_get_rx_array: the device buffer is copied to the receiver objects
gpu_get_rx_array(buf, rxs) == [r \in DOMAIN rxs |-> [rxs[r] EXCEPT !.outputs = buf[r]]]

\* Mutant of GpuCopyBack: the copy made without the test of G.rxs
GpuCopyBack_unconditional ==
    /\ pc = "gpu_copy_back"
    /\ G' = [G EXCEPT !.rxs = gpu_get_rx_array(dev.rxs, G.rxs)]
    /\ hist' = [hist EXCEPT !.copybacks = @ + 1]
    /\ pc' = "write_output"
    /\ Frame /\ UNCHANGED <<inglobals, maxpoles, dev, iteration, error, trace>>

GpuCopyBack ==
    /\ pc = "gpu_copy_back"
    /\ IF G.rxs # <<>>
       THEN /\ G' = [G EXCEPT !.rxs = gpu_get_rx_array(dev.rxs, G.rxs)]
            /\ hist' = [hist EXCEPT !.copybacks = @ + 1]
       ELSE UNCHANGED <<G, hist>>
    /\ pc' = "write_output"
    /\ Frame /\ UNCHANGED <<inglobals, maxpoles, dev, iteration, error, trace>>

\* ------------------------------------------------------------ specification
Build ==
    \/ NewGrid \/ BuiltinMaterials \/ ProcessCmds \/ InitialiseGeometryArrays
    \/ InitialiseFieldArrays \/ ProcessGeometryCmds \/ BuildPMLs \/ BuildComponents
    \/ PEC2D \/ VoltageSourceMaterials \/ InitialiseStdCoeffs \/ MemoryCheck
    \/ ProcessMaterials \/ DispersionAnalysis

RunModel ==
    \/ ReuseFields \/ ReusePMLs \/ StepSources \/ StepReceivers \/ GeometryViews
    \/ PrepareSnapshots \/ WriteOutput \/ DelGrid

SolveCpu ==
    \/ CpuLoop \/ CpuStoreOutputs \/ CpuSnapshots \/ CpuUpdateMagnetic \/ CpuPmlMagnetic
    \/ CpuSourcesMagnetic \/ CpuUpdateElectric \/ CpuPmlElectric \/ CpuSourcesElectric
    \/ CpuPhaseB

SolveGpu ==
    \/ GpuCompileFields \/ GpuConstMem \/ GpuInitArrays \/ GpuInitPMLs \/ GpuInitReceivers
    \/ GpuInitSources \/ GpuLoop \/ GpuStoreOutputs \/ GpuUpdateMagnetic \/ GpuPmlMagnetic
    \/ GpuMagneticDipoles \/ GpuUpdateElectric \/ GpuPmlElectric \/ GpuVoltageSources
    \/ GpuHertzianDipoles \/ GpuPhaseB \/ GpuCopyBack

Next == CallRunModel \/ Build \/ RunModel \/ SolveCpu \/ SolveGpu

Spec == Init /\ [][Next]_vars


\* ================================================================ properties
Iota(n) == [i \in 1..n |-> i]

\* ids of the events of one kind emitted in iteration it, in trace order
IdsOf(kinds, it) ==
    LET sel == SelectSeq(trace, LAMBDA e : e.ev \in kinds /\ e.it = it)
    IN [k \in DOMAIN sel |-> sel[k].id]

PhaseAKinds == {"dispersive_1pole_A", "dispersive_multipole_A"}

PhaseBKinds == {"dispersive_1pole_B", "dispersive_multipole_B"}

MainElectricKinds == {"update_electric"} \cup PhaseAKinds

\* Place of each kind of step in the order the iteration is documented to follow
Stage(kind) ==
    CASE kind = "store_outputs" -> 1
      [] kind = "snapshot" -> 2
      [] kind = "update_magnetic" -> 3
      [] kind = "pml_magnetic" -> 4
      [] kind = "transmissionline_magnetic" -> 5
      [] kind = "magneticdipole" -> 6
      [] kind \in MainElectricKinds -> 7
      [] kind = "pml_electric" -> 8
      [] kind \in {"voltagesource", "transmissionline_electric", "hertziandipole"} -> 9
      [] kind \in PhaseBKinds -> 10

NumPmls == Cardinality({f \in Range(Faces) : cfg.pmlthickness[f] > 0})

TraceInStageOrder ==
    \A i, j \in DOMAIN trace :
        i < j => \/ trace[i].it < trace[j].it
                 \/ /\ trace[i].it = trace[j].it
                    /\ Stage(trace[i].ev) <= Stage(trace[j].ev)

\* Iteration t+1 starts only when iteration t is complete
IterationsSequential ==
    /\ hist.itersdone = [k \in 1..Len(hist.itersdone) |-> k - 1]
    /\ \A i \in DOMAIN trace : trace[i].it <= Len(hist.itersdone)
    /\ \A i \in DOMAIN trace : trace[i].it = Len(hist.itersdone) => pc # "idle" \/ error # "none"

CpuIterationComplete(t) ==
    /\ IdsOf({"store_outputs"}, t) = <<0>>
    /\ IdsOf({"snapshot"}, t) =
          SelectSeq(Iota(Len(cfg.snaptimes)), LAMBDA i : cfg.snaptimes[i] = t + 1)
    /\ IdsOf({"update_magnetic"}, t) = <<0>>
    /\ IdsOf({"pml_magnetic"}, t) = Iota(NumPmls)
    /\ IdsOf({"transmissionline_magnetic"}, t) = Iota(cfg.ntl)
    /\ IdsOf({"magneticdipole"}, t) = Iota(Len(cfg.md))
    /\ IdsOf(MainElectricKinds, t) = <<0>>
    /\ IdsOf({"update_electric"}, t) = (IF maxpoles = 0 THEN <<0>> ELSE <<>>)
    /\ IdsOf({"pml_electric"}, t) = Iota(NumPmls)
    /\ IdsOf({"voltagesource"}, t) = Iota(Len(cfg.vs))
    /\ IdsOf({"transmissionline_electric"}, t) = Iota(cfg.ntl)
    /\ IdsOf({"hertziandipole"}, t) = Iota(Len(cfg.hd))
    /\ IdsOf(PhaseBKinds, t) = (IF maxpoles >= 1 THEN <<0>> ELSE <<>>)

\* C1: in solve_cpu the steps of every iteration run in the order receiver
\* sampling, snapshots, magnetic update, PML magnetic corrections, magnetic
\* sources (transmission lines, then magnetic dipoles), main electric update,
\* PML electric corrections, electric sources, dispersive phase B (when
\* maxpoles >= 1); every complete iteration has executed each of them for every
\* PML and source; no step of iteration t+1 precedes the end of iteration t.
C1_CpuStepOrder ==
    ~cfg.gpu =>
        /\ TraceInStageOrder
        /\ IterationsSequential
        /\ \A k \in DOMAIN hist.itersdone : CpuIterationComplete(hist.itersdone[k])

C1_Witness ==
    /\ ~cfg.gpu
    /\ Len(hist.itersdone) = 2
    /\ maxpoles >= 1
    /\ NumPmls >= 1
    /\ cfg.ntl >= 1 /\ cfg.md # <<>> /\ cfg.vs # <<>> /\ cfg.hd # <<>>
    /\ \E i \in DOMAIN trace : trace[i].ev = "snapshot"
    /\ \E i \in DOMAIN trace : trace[i].ev \in PhaseBKinds /\ trace[i].it = 1

FieldKinds == {k \in {"update_magnetic", "pml_magnetic", "transmissionline_magnetic",
                     "magneticdipole", "pml_electric", "voltagesource",
                     "transmissionline_electric", "hertziandipole"} : TRUE}
              \cup MainElectricKinds \cup PhaseBKinds

\* The buffer a receiver's samples are in: the receiver object on the CPU, the
\* on-device buffer in the GPU loop
SampleOf(r, i) == IF cfg.gpu THEN dev.rxs[r][i] ELSE G.rxs[r].outputs[i]

InSolver == pc \in Range(CpuBody) \cup Range(GpuBody) \cup {"cpu_loop", "gpu_loop"}

\* C2: in both backends the receivers are sampled once per iteration, before
\* any field update of that iteration: the sample of iteration i is the field
\* state after exactly i complete iterations, and the state after the last
\* iteration is never sampled.
C2_SampleBeforeUpdate ==
    /\ \A i, j \in DOMAIN trace :
          (trace[i].ev = "store_outputs" /\ trace[j].ev \in FieldKinds
           /\ trace[i].it = trace[j].it) => i < j
    /\ \A i, j \in DOMAIN trace :
          (trace[i].ev = "store_outputs" /\ trace[j].ev = "store_outputs"
           /\ trace[i].it = trace[j].it) => i = j
    /\ \A i \in DOMAIN trace :
          trace[i].ev = "store_outputs" => trace[i].it \in 0..(cfg.iterations - 1)
    /\ \A j \in DOMAIN trace :
          (trace[j].ev \in FieldKinds /\ cfg.rx # <<>>)
             => \E k \in DOMAIN trace : trace[k].ev = "store_outputs" /\ trace[k].it = trace[j].it
    /\ InSolver =>
          \A r \in DOMAIN G.rxs : \A i \in DOMAIN trace :
              trace[i].ev = "store_outputs"
                 => SampleOf(r, trace[i].it) = hist.fieldafter[trace[i].it + 1]
    /\ (pc = "write_output" /\ cfg.rx # <<>>) =>
          \A r \in DOMAIN G.rxs : \A t \in 0..(cfg.iterations - 1) :
              /\ G.rxs[r].outputs[t] = hist.fieldafter[t + 1]
              /\ cfg.iterations >= 1 => G.rxs[r].outputs[t] # hist.fieldafter[cfg.iterations + 1]

C2_Witness ==
    /\ cfg.gpu
    /\ pc = "write_output"
    /\ cfg.iterations = 2
    /\ cfg.rx # <<>>
    /\ G.rxs[1].outputs[1] # <<>>

\* C3: in both backends the Hertzian dipoles of an iteration are updated after
\* the main electric update, after every PML electric correction and after the
\* voltage sources and transmission lines of that iteration, and before phase B.
C3_HertzianLast ==
    /\ \A i, j \in DOMAIN trace :
          (trace[j].ev = "hertziandipole" /\ trace[i].it = trace[j].it) =>
              /\ trace[i].ev \in MainElectricKinds
                    \cup {"pml_electric", "voltagesource", "transmissionline_electric"} => i < j
              /\ trace[i].ev \in PhaseBKinds => j < i
    /\ \A j \in DOMAIN trace :
          trace[j].ev = "hertziandipole" =>
              /\ \E i \in 1..j : trace[i].ev \in MainElectricKinds /\ trace[i].it = trace[j].it
              /\ Len(IdsOf({"pml_electric"}, trace[j].it)) = NumPmls
              /\ Len(IdsOf({"voltagesource"}, trace[j].it)) = Len(cfg.vs)
              /\ ~cfg.gpu => Len(IdsOf({"transmissionline_electric"}, trace[j].it)) = cfg.ntl
    /\ \A k \in DOMAIN hist.itersdone :
          IdsOf({"hertziandipole"}, hist.itersdone[k]) = Iota(Len(cfg.hd))

C3_Witness ==
    /\ Len(hist.itersdone) >= 1
    /\ cfg.hd # <<>> /\ cfg.vs # <<>> /\ cfg.ntl >= 1 /\ NumPmls >= 1
    /\ \E i \in DOMAIN trace : trace[i].ev \in PhaseBKinds
    /\ \E i \in DOMAIN trace : trace[i].ev = "hertziandipole"

\* C4: a solver run that has entered its loop leaves it only after exactly
\* G.iterations iterations, with indices 0..N-1 in increasing order.
C4_ExactlyNIterations ==
    (hist.loopentered /\ ~InSolver) =>
        hist.itersdone = [k \in 1..cfg.iterations |-> k - 1]


\* ------------------------------------------------- stepping and admission
Inside(c) == \A a \in 1..3 : 0 <= c[a] /\ c[a] <= GridN

\* Position of an object in run k
PositionInRun(origin, steps, k) ==
    <<origin[1] + (k - 1) * steps[1], origin[2] + (k - 1) * steps[2],
      origin[3] + (k - 1) * steps[3]>>

SteppedSourceOrigins == Range(cfg.hd) \cup Range(cfg.md)

\* Some stepped source or receiver is outside the domain in run k
OutsideInRun(k) ==
    \/ /\ cfg.srcsteps # Zero3
       /\ \E o \in SteppedSourceOrigins : ~Inside(PositionInRun(o, cfg.srcsteps, k))
    \/ /\ cfg.rxsteps # Zero3
       /\ \E o \in Range(cfg.rx) : ~Inside(PositionInRun(o, cfg.rxsteps, k))

StepErrors == {"source-step", "receiver-step"}

BuildErrors == {"memory-host", "memory-gpu", "non-physical"}

GpuSetupPcs ==
    {"gpu_compile", "gpu_constmem", "gpu_init_arrays", "gpu_init_pmls", "gpu_init_rxs",
     "gpu_init_sources", "gpu_copy_back"}

AfterStepping ==
    {"geometry_views", "prepare_snapshots", "write_output", "del_grid"}
    \cup GpuSetupPcs \cup Range(CpuBody) \cup Range(GpuBody) \cup {"cpu_loop", "gpu_loop"}

ModelPoles == Max({0} \cup Range(cfg.poles))

EstimateExceeds ==
    \/ cfg.mem.est > cfg.mem.ram
    \/ cfg.gpu /\ cfg.mem.est > cfg.mem.gpumem

\* The build of this model ends in one of its fatal errors
BuildFails == (ModelPoles # 0 /\ EstimateExceeds) \/ cfg.disp = "undersampled"

\* C5: when the position of the last run (origin + (modelend - 1) * step) of
\* some stepped source or receiver is outside the domain, run 1 ends in a fatal
\* error (the out-of-domain one unless the build has already failed) before
\* any solver step and before any output file.
C5_FirstRunRejects ==
    (currentmodelrun = 1 /\ OutsideInRun(cfg.modelend)) =>
        /\ pc \notin AfterStepping
        /\ trace = <<>> /\ ~hist.loopentered
        /\ hist.outfiles = 0
        /\ pc = "idle" => error \in StepErrors \cup BuildErrors
        /\ (pc = "idle" /\ ~BuildFails) => error \in StepErrors

C5_Witness ==
    /\ currentmodelrun = 1 /\ OutsideInRun(cfg.modelend)
    /\ cfg.modelend >= 2
    /\ ~OutsideInRun(1)
    /\ pc = "idle" /\ error = "receiver-step"

CoordsAsStepped ==
    /\ \A i \in DOMAIN G.hertziandipoles :
          G.hertziandipoles[i].coord = PositionInRun(cfg.hd[i], cfg.srcsteps, currentmodelrun)
    /\ \A i \in DOMAIN G.magneticdipoles :
          G.magneticdipoles[i].coord = PositionInRun(cfg.md[i], cfg.srcsteps, currentmodelrun)
    /\ \A i \in DOMAIN G.rxs :
          G.rxs[i].coord = PositionInRun(cfg.rx[i], cfg.rxsteps, currentmodelrun)

\* C6: if the positions of all runs 1..modelend are inside the domain, no run
\* raises the out-of-domain error, and in run k the coordinates are
\* origin + (k - 1) * step.
C6_InBoundsAccepted ==
    (\A k \in 1..cfg.modelend : ~OutsideInRun(k)) =>
        /\ error \notin StepErrors
        /\ (pc \in AfterStepping /\ pc # "del_grid") => CoordsAsStepped

AllCoords ==
    {G.voltagesources[i].coord : i \in DOMAIN G.voltagesources}
    \cup {G.transmissionlines[i].coord : i \in DOMAIN G.transmissionlines}
    \cup {G.hertziandipoles[i].coord : i \in DOMAIN G.hertziandipoles}
    \cup {G.magneticdipoles[i].coord : i \in DOMAIN G.magneticdipoles}
    \cup {G.rxs[i].coord : i \in DOMAIN G.rxs}

\* C7: whenever a solver loop starts, every source and receiver is inside the
\* domain.
C7_InsideAtLoopStart ==
    (pc \in {"cpu_loop", "gpu_loop"} /\ iteration = 0) => \A c \in AllCoords : Inside(c)

\* C8: for a dispersive model whose memory estimate exceeds the host RAM or the
\* memory of the selected GPU, the build raises a fatal error at the admission
\* check and the dispersive auxiliary arrays are never allocated.
C8_DispersiveRejected ==
    (ModelPoles # 0 /\ EstimateExceeds) =>
        /\ "dispersive" \notin G.alloc
        /\ ~hist.memchecked
        /\ hist.built => pc \notin {"process_materials", "dispersion_analysis"} \cup AfterStepping
        /\ (hist.built /\ pc = "idle" /\ calls >= 1) => error \in {"memory-host", "memory-gpu"}

C8_Witness ==
    /\ ModelPoles # 0 /\ EstimateExceeds
    /\ hist.built /\ pc = "idle" /\ error = "memory-gpu"
    /\ "updatecoeffs" \in G.alloc

\* C9: in a build no large array is allocated before the memory admission
\* check has passed.
C9_CheckBeforeAllocation ==
    (hist.built /\ G.alloc # {}) => hist.memchecked

\* C10: a model, dispersive or not, whose memory estimate exceeds the host RAM
\* or the memory of the selected GPU never reaches the solver loop.
C10_OversizeNeverSolved ==
    EstimateExceeds => (~hist.loopentered /\ ~InSolver)

\* ------------------------------------------------------- GPU constant memory
GpuAfterConstMem ==
    {"gpu_init_arrays", "gpu_init_pmls", "gpu_init_rxs", "gpu_init_sources",
     "gpu_loop", "gpu_copy_back"} \cup Range(GpuBody)

\* The two coefficient tables of the grid do not fit the constant memory
TablesExceedConstMem == G.coeffrows + G.coeffrows > G.constmem

\* C11: on the GPU, when the electric plus the magnetic coefficient table
\* exceed the constant memory of the device, solve_gpu raises the fatal error
\* before any coefficient table is copied to the device and before any kernel
\* is launched: no loop iteration executes and no output file is written.
C11_ConstMemRejected ==
    (cfg.gpu /\ TablesExceedConstMem) =>
        /\ dev.consts = {}
        /\ dev.fields = <<>> /\ dev.rxs = <<>>
        /\ trace = <<>> /\ ~hist.loopentered /\ hist.itersdone = <<>>
        /\ pc \notin GpuAfterConstMem \cup {"write_output"}
        /\ hist.outfiles = 0
        /\ (pc = "idle" /\ "fields" \in dev.kernels) => error = "constant-memory"

C11_Witness ==
    /\ cfg.gpu /\ TablesExceedConstMem
    /\ pc = "idle" /\ error = "constant-memory"
    /\ dev.kernels = {"fields"}
    /\ G.coeffs = "computed"

\* -------------------------------------------------------------- output file
\* The fatal conditions of a run
FatalErrors ==
    {"memory-host", "memory-gpu", "source-step", "receiver-step", "constant-memory",
     "non-physical"}

\* The solver loop of this call was entered and ran all its iterations
AllIterationsDone ==
    /\ hist.loopentered
    /\ hist.itersdone = [k \in 1..cfg.iterations |-> k - 1]

CallEnded == pc = "idle" /\ calls >= 1

\* C12: a run_model call writes the output file at most once; at the end of
\* the call it has been written exactly when the run is not geometry-only and
\* the solver loop has completed all its iterations; a call that ended in a
\* fatal condition has executed no solver step and written no output file.
C12_OutputOnceAfterLoop ==
    /\ hist.outfiles \in {0, 1}
    /\ hist.outfiles = 1 =>
          /\ ~cfg.geometry_only /\ AllIterationsDone
          /\ pc \in {"del_grid", "idle"} /\ error = "none"
    /\ CallEnded => (hist.outfiles = 1 <=> (~cfg.geometry_only /\ AllIterationsDone))
    /\ cfg.geometry_only => (trace = <<>> /\ ~hist.loopentered)
    /\ (CallEnded /\ error \in FatalErrors) =>
          /\ trace = <<>> /\ hist.itersdone = <<>> /\ ~hist.loopentered
          /\ hist.outfiles = 0

C12_Witness ==
    /\ CallEnded /\ error = "none"
    /\ cfg.gpu /\ cfg.rx # <<>>
    /\ hist.outfiles = 1
    /\ Len(hist.itersdone) = MaxIter

\* ------------------------------------------------------ lifetime of the grid
\* C13: with geometry_fixed false every run_model call, also one that follows
\* a call ended by a fatal error, finds no grid in globals, creates a fresh
\* one and executes the full build.
C13_FreshGridEveryCall ==
    ~cfg.geometry_fixed =>
        /\ pc # "idle" => hist.built
        /\ pc = "idle" => ~inglobals

\* ------------------------------------------------- tables of a built model
BuildPcs ==
    {"new_grid", "builtin_materials", "process_cmds", "geometry_arrays", "field_arrays",
     "geometry_cmds", "build_pmls", "build_components", "pec_2d", "voltage_materials",
     "std_coeffs", "memory_check", "process_materials", "dispersion_analysis"}

\* ID array, material list, update coefficients, PML regions (with their
\* coefficients) of a grid
Tables(g) == <<g.ID, g.materials, g.coeffs, g.coeffrows, g.pmls, g.pmlthickness>>

\* A grid without its field arrays and PML auxiliary field arrays
WithoutFields(g) == [g EXCEPT !.fields = <<>>, !.pmlaux = <<>>, !.alloc = {}]

\* C14: outside the build (and the deletion of the grid) no step changes the
\* ID array, the material list, the update coefficients or the PMLs: not the
\* solver iterations and not the reuse path of a geometry-fixed run, which
\* changes the field arrays and the PML auxiliary arrays only, leaving them zero.
C14_TablesFrozen ==
    /\ [][ /\ (pc \notin BuildPcs /\ (pc = "del_grid" => cfg.geometry_fixed))
              => Tables(G') = Tables(G)
           /\ pc \in {"reuse_fields", "reuse_pmls"} => WithoutFields(G') = WithoutFields(G)
         ]_vars
    /\ []((pc = "step_sources" /\ ~hist.built) => (G.fields = <<>> /\ G.pmlaux = <<>>))

C14_Witness ==
    /\ cfg.geometry_fixed /\ calls = 2 /\ ~hist.built
    /\ Len(hist.itersdone) >= 1
    /\ G.coeffs = "computed" /\ G.pmls # <<>> /\ Len(G.materials) > 2
    /\ "pec_xy" \in Range(G.ID)

\* --------------------------------------------------------------------- PMLs
PmlKinds == {"pml_magnetic", "pml_electric"}

UpToPmlBuild ==
    {"new_grid", "builtin_materials", "process_cmds", "geometry_arrays", "field_arrays",
     "geometry_cmds", "build_pmls"}

\* C15: with all six PML thicknesses zero the build calls build_pmls never,
\* creates no PML and raises nothing there; no iteration of either backend
\* applies a PML correction and solve_gpu compiles no PML kernels. With some
\* thickness non-zero a build calls build_pmls exactly once (and a reusing
\* run never), creating one PML per face of non-zero thickness.
C15_PmlSkippedWhenOff ==
    /\ NumPmls = 0 =>
          /\ hist.pmlbuilds = 0
          /\ G.pmls = <<>> /\ "pml" \notin G.alloc /\ G.pmlaux = <<>>
          /\ \A i \in DOMAIN trace : trace[i].ev \notin PmlKinds
          /\ "pml" \notin dev.kernels /\ "pml" \notin dev.consts /\ dev.pmlaux = <<>>
          /\ pc = "build_components" => error = "none"
    /\ NumPmls > 0 =>
          /\ hist.pmlbuilds \in {0, 1}
          /\ (hist.built /\ pc \notin UpToPmlBuild) => hist.pmlbuilds = 1
          /\ (~hist.built \/ pc \in UpToPmlBuild) => hist.pmlbuilds = 0
          /\ hist.pmlbuilds = 1 => Len(G.pmls) = NumPmls \/ ~inglobals

C15_Witness ==
    /\ NumPmls = 0
    /\ cfg.gpu /\ pc = "write_output"
    /\ Len(hist.itersdone) = MaxIter
    /\ dev.kernels = {"fields", "store_outputs", "sources"}

\* ---------------------------------------------------------------- materials
IsPrefix(s, t) == Len(s) <= Len(t) /\ SubSeq(t, 1, Len(s)) = s

BuiltinsFirst(g) ==
    /\ Len(g.materials) >= 2
    /\ g.materials[1].ID = "pec" /\ g.materials[1].numID = 0
    /\ g.materials[1].type = "builtin"
    /\ g.materials[2].ID = "free_space" /\ g.materials[2].numID = 1
    /\ g.materials[2].type = "builtin"

\* C16: from the creation of the built-in materials on, for as long as the
\* grid exists (the rest of the build, the voltage-source materials, the
\* solver iterations, reused runs), G.materials has the perfect conductor at
\* ordinal 0 and free space at ordinal 1, and materials are only appended.
C16_BuiltinsAtFixedOrdinals ==
    /\ []((inglobals /\ pc # "builtin_materials") => BuiltinsFirst(G))
    /\ [][pc # "del_grid" => IsPrefix(G.materials, G'.materials)]_vars

C16_Witness ==
    /\ Len(G.materials) = 5
    /\ G.materials[3].type = "user" /\ G.materials[5].type = "voltage-source"
    /\ G.materials[5].numID = 4
    /\ Len(hist.itersdone) >= 1

\* ------------------------------------------------------------ 2D PEC planes
Modes2D == {"2D TMx", "2D TMy", "2D TMz"}

\* The two electric components transverse to the invariant direction
TransverseOf(mode) ==
    CASE mode = "2D TMx" -> {"y", "z"}
      [] mode = "2D TMy" -> {"x", "z"}
      [] mode = "2D TMz" -> {"x", "y"}

PecWrites == {"pec_yz", "pec_xz", "pec_xy"}

\* The write w sets the ID of component c at the origin (plane 0) to zero
WritesZero(w, c) ==
    \/ w = "pec_yz" /\ c \in {"y", "z"}
    \/ w = "pec_xz" /\ c \in {"x", "z"}
    \/ w = "pec_xy" /\ c \in {"x", "y"}

\* The write w may set the ID of component c at the origin to a non-zero row
WritesNonZero(w, c) ==
    \/ w \in {"initialise", "geometry", "electric"}
    \/ w = "vs_x" /\ c = "x"
    \/ w = "vs_y" /\ c = "y"
    \/ w = "vs_z" /\ c = "z"

\* The last write to the ID of component c at the origin was the PEC zero
EntryPinned(id, c) ==
    \E i \in DOMAIN id :
        /\ WritesZero(id[i], c)
        /\ \A j \in DOMAIN id : j > i => ~WritesNonZero(id[j], c)

SolverOrLater ==
    InSolver \/ pc \in {"gpu_copy_back", "write_output", "del_grid"}

\* C17: in a 2D mode, for every configuration of sources, the ID of the two
\* electric components transverse to the invariant direction on planes 0 and
\* 1 is zero from the start of the first solver iteration on; in 3D mode the
\* pinning step writes nothing to the ID array.
C17_PinnedStayZero ==
    /\ (G.mode \in Modes2D /\ SolverOrLater) =>
          \A c \in TransverseOf(G.mode) : EntryPinned(G.ID, c)
    /\ G.mode = "3D" => Range(G.ID) \cap PecWrites = {}

\* ------------------------------------------------- equivalence of backends
\* The field updates of one iteration of solve_cpu on grid g, in program order
CpuFieldEvents(g, poles, it) ==
    <<Ev(it, "update_magnetic", 0, Zero3)>>
    \o PmlEvents(g, it, "pml_magnetic")
    \o MagneticSources(g, it)
    \o <<Ev(it, ElectricUpdate(poles), 0, Zero3)>>
    \o PmlEvents(g, it, "pml_electric")
    \o ElectricSources(g, it)
    \o PhaseB(poles, it)

\* The field state solve_cpu reaches from zero fields after n iterations
RECURSIVE CpuFieldsAfter(_, _, _)
CpuFieldsAfter(g, poles, n) ==
    IF n = 0 THEN <<>>
    ELSE CpuFieldsAfter(g, poles, n - 1) \o CpuFieldEvents(g, poles, n - 1)

\* The field updates of iteration it executed so far by the running loop
FieldEventsOf(it) == SelectSeq(trace, LAMBDA x : x.ev \in FieldKinds /\ x.it = it)

\* C18: for the same grid, materials, sources of the four types and iteration
\* count the loop of solve_gpu performs in every iteration the field updates
\* of solve_cpu, over the same PMLs and sources and in the same order, so the
\* field state after every iteration and every receiver sample are those of
\* solve_cpu.
C18_BackendsAgree ==
    (InSolver /\ hist.loopentered) =>
        /\ \A k \in DOMAIN hist.itersdone :
              FieldEventsOf(hist.itersdone[k]) = CpuFieldEvents(G, maxpoles, hist.itersdone[k])
        /\ \A k \in DOMAIN hist.fieldafter :
              hist.fieldafter[k] = CpuFieldsAfter(G, maxpoles, k - 1)
        /\ \A r \in DOMAIN G.rxs : \A i \in DOMAIN trace :
              trace[i].ev = "store_outputs"
                 => SampleOf(r, trace[i].it) = CpuFieldsAfter(G, maxpoles, trace[i].it)

\* ---------------------------------------------------------------- snapshots
\* C19: in solve_cpu a snapshot of scheduled time t is serialized only in the
\* iteration of index t - 1 (so only when 1 <= t <= iterations), at most once,
\* after the receivers of that iteration were sampled and before its magnetic
\* update, with the field state after exactly t - 1 complete iterations; every
\* complete iteration t - 1 has serialized every snapshot of time t.
C19_SnapshotAtScheduledStep ==
    ~cfg.gpu =>
        /\ \A k \in DOMAIN hist.snapswritten :
              LET s == hist.snapswritten[k]
              IN /\ s[1] \in DOMAIN cfg.snaptimes
                 /\ cfg.snaptimes[s[1]] = s[2] + 1
                 /\ 1 <= cfg.snaptimes[s[1]] /\ cfg.snaptimes[s[1]] <= cfg.iterations
                 /\ s[3] = hist.fieldafter[s[2] + 1]
                 /\ s[3] = CpuFieldsAfter(G, maxpoles, cfg.snaptimes[s[1]] - 1) \/ ~inglobals
        /\ \A k, l \in DOMAIN hist.snapswritten :
              hist.snapswritten[k][1] = hist.snapswritten[l][1] => k = l
        /\ \A k \in DOMAIN hist.itersdone : \A i \in DOMAIN cfg.snaptimes :
              cfg.snaptimes[i] = hist.itersdone[k] + 1
                 => \E l \in DOMAIN hist.snapswritten :
                       hist.snapswritten[l][1] = i /\ hist.snapswritten[l][2] = hist.itersdone[k]
        /\ Len(SelectSeq(trace, LAMBDA x : x.ev = "snapshot")) = Len(hist.snapswritten)
        /\ \A i, j \in DOMAIN trace :
              (trace[i].ev = "snapshot" /\ trace[j].it = trace[i].it) =>
                  /\ trace[j].ev = "store_outputs" => j < i
                  /\ trace[j].ev \in FieldKinds => i < j
        /\ \A i \in DOMAIN trace :
              trace[i].ev = "snapshot" =>
                  \E j \in 1..i : trace[j].ev = "store_outputs" /\ trace[j].it = trace[i].it

C19_Witness ==
    /\ ~cfg.gpu /\ pc = "write_output"
    /\ cfg.iterations = MaxIter /\ cfg.snaptimes = <<1, MaxIter>>
    /\ Len(hist.snapswritten) = 2
    /\ hist.snapswritten[1][3] = <<>> /\ hist.snapswritten[2][3] # <<>>

\* ------------------------------------------------- receivers on the GPU
GpuLoopPcs == Range(GpuBody) \cup {"gpu_loop"}

StoreEventsOf(it) == SelectSeq(trace, LAMBDA x : x.ev = "store_outputs" /\ x.it = it)

\* C20: in solve_gpu no step of the setup or of the loop writes the receiver
\* objects; every iteration stores one sample per receiver in the device
\* buffer; the buffer is copied to the receiver objects exactly once, after
\* the last iteration; with no receivers there is no store, no buffer and no
\* copy.
C20_GpuReceiversCopiedOnce ==
    /\ [][(cfg.gpu /\ pc \in (GpuSetupPcs \cup GpuLoopPcs) \ {"gpu_copy_back"})
             => G'.rxs = G.rxs]_vars
    /\ [](cfg.gpu =>
            /\ hist.copybacks \in {0, 1}
            /\ hist.copybacks = 1 =>
                  /\ AllIterationsDone /\ pc \notin GpuLoopPcs \cup {"gpu_copy_back"}
                  /\ cfg.rx # <<>>
            /\ (pc \in GpuLoopPcs \cup {"gpu_copy_back"}) => hist.copybacks = 0
            /\ (pc = "write_output" /\ cfg.rx # <<>>) =>
                  /\ hist.copybacks = 1
                  /\ \A r \in DOMAIN G.rxs : G.rxs[r].outputs = dev.rxs[r]
            /\ (pc \in GpuLoopPcs /\ cfg.rx # <<>>) =>
                  \A k \in DOMAIN hist.itersdone :
                      /\ Len(StoreEventsOf(hist.itersdone[k])) = 1
                      /\ \A r \in DOMAIN dev.rxs :
                            dev.rxs[r][hist.itersdone[k]] = hist.fieldafter[k]
            /\ cfg.rx = <<>> =>
                  /\ hist.copybacks = 0
                  /\ dev.rxs = <<>> /\ "store_outputs" \notin dev.kernels
                  /\ \A i \in DOMAIN trace : trace[i].ev # "store_outputs")

C20_Witness ==
    /\ cfg.gpu /\ cfg.geometry_fixed /\ calls = 2
    /\ pc = "write_output"
    /\ hist.copybacks = 1
    /\ Len(hist.itersdone) >= 1
    /\ G.rxs[1].outputs[0] = <<>>

\* ------------------------------------------------------------- zero fields
\* The updates that compute the new field from the curl of the other field
\* and the old field only: applied to zero fields they leave them zero
ZeroPreservingKinds == {"update_magnetic", "update_electric"}

\* The value of an array all of whose updates preserved zero is zero
IsZero(array) == \A i \in DOMAIN array : array[i].ev \in ZeroPreservingKinds

NoSources == cfg.vs = <<>> /\ cfg.ntl = 0 /\ cfg.hd = <<>> /\ cfg.md = <<>>

\* C21: for a model with maxpoles = 0, all PML thicknesses zero and no source
\* of any type, the field arrays are zero at the start of the loop and after
\* every iteration, in either backend: the loop applies nothing but the plain
\* magnetic and electric updates, and every receiver sample is zero.
C21_ZeroStaysZero ==
    (ModelPoles = 0 /\ NumPmls = 0 /\ NoSources) =>
        /\ IsZero(G.fields) /\ IsZero(dev.fields)
        /\ \A k \in DOMAIN hist.fieldafter : IsZero(hist.fieldafter[k])
        /\ hist.loopentered => hist.fieldafter[1] = <<>>
        /\ G.T = <<>> /\ G.pmlaux = <<>> /\ dev.T = <<>> /\ dev.pmlaux = <<>>
        /\ \A i \in DOMAIN trace :
              trace[i].ev \in ZeroPreservingKinds \cup {"store_outputs", "snapshot"}
        /\ \A r \in DOMAIN G.rxs : \A t \in DOMAIN G.rxs[r].outputs :
              G.rxs[r].outputs[t] # Unwritten => IsZero(G.rxs[r].outputs[t])

C21_Witness ==
    /\ ModelPoles = 0 /\ NumPmls = 0 /\ NoSources
    /\ ~cfg.gpu /\ cfg.rx # <<>>
    /\ pc = "write_output"
    /\ Len(hist.itersdone) = MaxIter
    /\ Len(G.fields) = 2 * MaxIter
    /\ G.rxs[1].outputs[MaxIter - 1] # <<>>

\* ------------------------------------------------------ dispersion analysis
\* The memory admission check ends the build before the materials are processed
MemoryFails == ModelPoles # 0 /\ EstimateExceeds

\* C23: in a build whose materials were processed, a dispersion analysis that
\* reports a sampling below the minimum ends the call with the fatal
\* non-physical error before any solver step and output; an analysis that was
\* not carried out, or that reports a phase-velocity error above the threshold
\* with sufficient sampling, prints a warning only and the run goes on (to the
\* solver loop, unless it is geometry-only or the stepping or the constant
\* memory of the GPU rejects it).
C23_UndersampledFatalElseWarning ==
    hist.built =>
        /\ (cfg.disp = "undersampled" /\ ~MemoryFails) =>
              /\ pc \in BuildPcs \cup {"idle"}
              /\ pc = "idle" => error = "non-physical"
              /\ trace = <<>> /\ ~hist.loopentered /\ hist.outfiles = 0
              /\ hist.warned = "none"
        /\ cfg.disp # "undersampled" => error # "non-physical"
        /\ (cfg.disp \in {"error", "dispersive"} /\ pc \notin BuildPcs /\ ~MemoryFails) =>
              /\ hist.warned = (IF cfg.disp = "error" THEN "unavailable" ELSE "dispersion")
              /\ (pc = "idle" /\ ~cfg.geometry_only
                     /\ error \notin StepErrors \cup {"constant-memory"})
                    => (hist.loopentered /\ error = "none")
        /\ cfg.disp = "ok" => hist.warned = "none"

C23_Witness ==
    /\ hist.built /\ cfg.disp = "undersampled"
    /\ pc = "idle" /\ error = "non-physical"
    /\ G.coeffs = "computed" /\ "dispersive" \in G.alloc

\* -------------------------------------------------- variants of the E update
\* The variant of the main electric update and of phase B for a pole count
VariantA(poles) ==
    CASE poles = 0 -> "update_electric"
      [] poles = 1 -> "dispersive_1pole_A"
      [] poles > 1 -> "dispersive_multipole_A"

VariantB(poles) ==
    CASE poles = 1 -> "dispersive_1pole_B"
      [] poles > 1 -> "dispersive_multipole_B"

EventsOf(kinds, it) == SelectSeq(trace, LAMBDA x : x.ev \in kinds /\ x.it = it)

ElectricSourceKinds == {"voltagesource", "transmissionline_electric", "hertziandipole"}

\* C24: in every iteration of solve_cpu at most one main electric update runs,
\* exactly one in a complete iteration, of the variant Material.maxpoles
\* selects (full, 1-pole A, multi-pole A), the same in all iterations; phase B
\* runs in an iteration only if phase A ran in it, and in every complete
\* iteration in which phase A ran, with the matching variant, after every PML
\* electric correction and electric source update of the iteration; with
\* maxpoles = 0 no dispersive update runs and Tx, Ty, Tz are never written.
C24_OneElectricVariant ==
    ~cfg.gpu =>
        /\ \A i \in DOMAIN trace :
              /\ trace[i].ev \in MainElectricKinds => trace[i].ev = VariantA(maxpoles)
              /\ trace[i].ev \in PhaseBKinds =>
                    /\ maxpoles >= 1 /\ trace[i].ev = VariantB(maxpoles)
                    /\ \E j \in 1..i : trace[j].ev \in PhaseAKinds /\ trace[j].it = trace[i].it
                    /\ Len(EventsOf({"pml_electric"}, trace[i].it)) = NumPmls
                    /\ Len(EventsOf(ElectricSourceKinds, trace[i].it))
                          = Len(cfg.vs) + cfg.ntl + Len(cfg.hd)
                    /\ \A j \in DOMAIN trace :
                          (trace[j].it = trace[i].it
                           /\ trace[j].ev \in {"pml_electric"} \cup ElectricSourceKinds
                                                \cup MainElectricKinds) => j < i
        /\ \A t \in 0..MaxIter + 1 :
              /\ Len(EventsOf(MainElectricKinds, t)) <= 1
              /\ Len(EventsOf(PhaseBKinds, t)) <= 1
        /\ \A k \in DOMAIN hist.itersdone :
              /\ Len(EventsOf(MainElectricKinds, hist.itersdone[k])) = 1
              /\ Len(EventsOf(PhaseBKinds, hist.itersdone[k]))
                    = Len(EventsOf(PhaseAKinds, hist.itersdone[k]))
        /\ maxpoles = 0 =>
              /\ G.T = <<>>
              /\ \A i \in DOMAIN trace : trace[i].ev \notin PhaseAKinds \cup PhaseBKinds

C24_Witness ==
    /\ ~cfg.gpu /\ maxpoles = 1
    /\ Len(hist.itersdone) = MaxIter
    /\ NumPmls >= 1 /\ cfg.hd # <<>> /\ cfg.vs # <<>>
    /\ Len(G.T) = 2 * MaxIter

\* ------------------------------------------- materials of the voltage sources
WithResistance == SelectSeq(cfg.vs, LAMBDA r : r # 0)

SynthesizedMaterials(g) == SelectSeq(g.materials, LAMBDA m : m.type = "voltage-source")

VsWrites == {"vs_x", "vs_y", "vs_z"}

UpToVoltageMaterials ==
    {"new_grid", "builtin_materials", "process_cmds", "geometry_arrays", "field_arrays",
     "geometry_cmds", "build_pmls", "build_components", "pec_2d", "voltage_materials"}

\* The call built the grid and is past the loop over the voltage sources
PastVoltageMaterials == hist.built /\ pc \notin UpToVoltageMaterials \cup {"idle"}

\* What both readings of the sentence share: the synthesized materials are one
\* per voltage source with resistance, their ID writes follow the derivation
\* of the edge IDs, the coefficient tables are dimensioned afterwards with a
\* row for every material, and a call that reuses the grid invokes nothing.
SynthesizedOnceBeforeTables ==
    /\ PastVoltageMaterials =>
          Len(SynthesizedMaterials(G)) = Len(WithResistance)
    /\ \A i \in DOMAIN G.ID : G.ID[i] \in VsWrites =>
          \E j, k \in 1..i - 1 : G.ID[j] = "electric" /\ G.ID[k] = "magnetic"
    /\ (hist.built /\ pc \in UpToVoltageMaterials) =>
          G.coeffs = "none" /\ SynthesizedMaterials(G) = <<>>
    /\ G.coeffs # "none" => G.coeffrows = Len(G.materials)
    /\ ~hist.built => hist.creatematerial = 0

LaunchLists == <<G.magneticdipoles, G.voltagesources, G.hertziandipoles>>

\* No two sources of one launch update the same field element
WriteSetsDisjoint ==
    \A l \in DOMAIN LaunchLists : \A i, j \in DOMAIN LaunchLists[l] :
        i # j => ~Collide(LaunchLists[l][i], LaunchLists[l][j])

\* The device field arrays hold the term of every update launched so far
EveryUpdateApplied == dev.fields = SelectSeq(trace, LAMBDA x : x.ev \in FieldKinds)

\* Every receiver has its own slot per iteration, holding the sample of the
\* field state at the start of that iteration
ReceiverSlotsOwn ==
    \A r \in DOMAIN dev.rxs : \A k \in DOMAIN hist.itersdone :
        dev.rxs[r][hist.itersdone[k]] = hist.fieldafter[k]

\* C26: in solve_gpu, for every accepted configuration, two distinct sources
\* of one launch write different field elements and two distinct receivers
\* different buffer slots, so the field arrays and the receiver buffer after
\* an iteration are the same for every interleaving of the threads.
C26_LaunchWritesDisjoint ==
    (cfg.gpu /\ pc \in GpuLoopPcs) =>
        /\ WriteSetsDisjoint
        /\ EveryUpdateApplied
        /\ ReceiverSlotsOwn

\* Whatever the sources do, the slots of the receivers are disjoint, and with
\* disjoint sources no update is lost.
DisjointImpliesApplied ==
    (cfg.gpu /\ pc \in GpuLoopPcs) =>
        /\ ReceiverSlotsOwn
        /\ WriteSetsDisjoint => EveryUpdateApplied

\* --------------------------------------------- solver state at the loop start
AtLoopStart == pc \in {"cpu_loop", "gpu_loop"} /\ iteration = 0

\* The arrays the loop of this call works on: the grid's, or their device copies
LoopState == IF pc = "gpu_loop" THEN dev ELSE G

FieldsZeroAtLoopStart ==
    AtLoopStart => IsZero(LoopState.fields) /\ LoopState.pmlaux = <<>>

\* C27: at the start of the solver loop of every call, on a freshly built and
\* on a reused grid, the six field arrays, the auxiliary arrays of the PMLs and
\* the dispersive arrays Tx, Ty, Tz are all zero.
C27_SolverStateZeroAtLoopStart ==
    /\ FieldsZeroAtLoopStart
    /\ AtLoopStart => LoopState.T = <<>>

\* ------------------------------------------- trajectories and their prefixes
\* The field updates of iteration it of solve_gpu, in loop order
GpuFieldEvents(g, poles, it) ==
    <<Ev(it, "update_magnetic", 0, Zero3)>>
    \o PmlEvents(g, it, "pml_magnetic")
    \o SourceEvents(g.magneticdipoles, it, "magneticdipole")
    \o <<Ev(it, ElectricUpdate(poles), 0, Zero3)>>
    \o PmlEvents(g, it, "pml_electric")
    \o SourceEvents(g.voltagesources, it, "voltagesource")
    \o SourceEvents(g.hertziandipoles, it, "hertziandipole")
    \o PhaseB(poles, it)

\* The field state after n iterations from zero fields as a function of the
\* backend, the grid and n alone: the iteration count of the run is no input
RECURSIVE FieldsAfter(_, _, _, _)
FieldsAfter(gpu, g, poles, n) ==
    IF n = 0 THEN <<>>
    ELSE FieldsAfter(gpu, g, poles, n - 1)
         \o (IF gpu THEN GpuFieldEvents(g, poles, n - 1) ELSE CpuFieldEvents(g, poles, n - 1))

PrefixDetermined ==
    (InSolver /\ hist.loopentered) =>
        /\ \A k \in DOMAIN hist.fieldafter :
              hist.fieldafter[k] = FieldsAfter(cfg.gpu, G, maxpoles, k - 1)
        /\ \A r \in DOMAIN G.rxs : \A i \in DOMAIN trace :
              trace[i].ev = "store_outputs"
                 => SampleOf(r, trace[i].it) = FieldsAfter(cfg.gpu, G, maxpoles, trace[i].it)

SampleWrittenOnce ==
    (InSolver /\ hist.loopentered) =>
        \A r \in DOMAIN G.rxs : \A i \in 0..(G.iterations - 1) :
            (i # iteration \/ pc \notin {"cpu_store", "gpu_store"})
                => SampleOf(r, i)' = SampleOf(r, i)

\* C22: the field state after each of the first iterations and the receiver
\* samples of those iterations are determined by the grid and the iteration
\* index, whatever the iteration count of the run, so a run of N and a run of
\* 2N iterations on the same grid agree on iterations 0..N-1; the sample of
\* iteration i is written during iteration i only and no later step of the
\* loop changes it.
C22_PrefixIndependentOfLength ==
    /\ []PrefixDetermined
    /\ [][SampleWrittenOnce]_vars

====
